---- MODULE Spec2Model ----
(***************************************************************************)
(* Model of the book generator (src/app.py, the word-count-floor variant,  *)
(* and src/old.py, the legacy variant).                                    *)
(*                                                                         *)
(* A text is a sequence of tokens.  A token is one character, written as a *)
(* one-character string; characters outside ASCII are written by their    *)
(* code point ("U+2014" is the em dash).  One more kind of token, a word   *)
(* run ("<1250 words>"), stands for that many plain words separated by     *)
(* single spaces: it lets a text of 2500 words be a short sequence.  Every *)
(* string function of the source is translated over such sequences.        *)
(***************************************************************************)
EXTENDS Integers, Sequences, FiniteSets, TLC

VARIABLES
    \* ---- the Streamlit script (widgets, session, the Generate handler)
    variant,             \* which file is deployed: "app" or "old"
    topic,               \* st.text_input("Book Topic:")
    audience,            \* st.text_input("Target Audience:")
    num_chapters,        \* st.slider("Number of Chapters")
    include_intro,       \* st.checkbox("Include Introduction")
    include_conclusion,  \* st.checkbox("Include Conclusions")
    selected_language,   \* st.selectbox("Choose the book's language:")
    session_chapters,    \* st.session_state.chapters
    pc,                  \* position of the script run
    chapters,            \* the handler's local list
    i,                   \* the chapter loop's index
    chapter_content,     \* the chapter being accumulated
    word_count,          \* len(chapter_content.split())
    st_errors,           \* what st.error has put on the display surface
    requests,            \* every requests.post of the run, with what came of it
    doc,                 \* what create_word_document returned to the download block
    run_end,             \* how the last script run ended
    run_count,           \* the runs of the handler that have got past the validation
    stored_run,          \* which of them assigned st.session_state.chapters (0: none)
    \* ---- the pure functions, applied to one drawn input
    arg,                 \* the input drawn
    applied,             \* which function has been applied ("none" at first)
    res                  \* its result

uiVars == <<variant, topic, audience, num_chapters, include_intro, include_conclusion,
            selected_language, session_chapters, pc, chapters, i, chapter_content,
            word_count, st_errors, requests, doc, run_end, run_count, stored_run>>
fnVars == <<arg, applied, res>>
vars == <<uiVars, fnVars>>

----------------------------------------------------------------------------
(* Characters *)

EmDash == "U+2014"
InvertedExclamation == "U+00A1"
iAcute == "U+00ED"
aAcute == "U+00E1"
IAcute == "U+00CD"
AAcute == "U+00C1"

W1250 == "<1250 words>"
W2500 == "<2500 words>"

\* The number of words a token stands for when it is a word run, else 0.
WordsIn(tok) ==
    CASE tok = W1250 -> 1250
      [] tok = W2500 -> 2500
      [] OTHER -> 0

\* What str.strip() and str.split() take for white space.
Whitespace == {" ", "\n", "\t"}

Digits == {"0", "1", "2", "3", "4", "5", "6", "7", "8", "9"}

UpperChars == <<"A", "B", "C", "D", "E", "F", "G", "H", "I", "J", "K", "L", "M",
                "N", "O", "P", "Q", "R", "S", "T", "U", "V", "W", "X", "Y", "Z",
                IAcute, AAcute>>
LowerChars == <<"a", "b", "c", "d", "e", "f", "g", "h", "i", "j", "k", "l", "m",
                "n", "o", "p", "q", "r", "s", "t", "u", "v", "w", "x", "y", "z",
                iAcute, aAcute>>

\* str.lower() and str.upper() of one character, as tables.
UpperSet == {UpperChars[k] : k \in 1..Len(UpperChars)}
LowerSet == {LowerChars[k] : k \in 1..Len(LowerChars)}
LowerOf == [c \in UpperSet |-> LowerChars[CHOOSE k \in 1..Len(UpperChars) : UpperChars[k] = c]]
UpperOf == [c \in LowerSet |-> UpperChars[CHOOSE k \in 1..Len(LowerChars) : LowerChars[k] = c]]

IsUpper(c) == c \in UpperSet
IsLower(c) == c \in LowerSet
IsCased(c) == IsUpper(c) \/ IsLower(c)

lower_char(c) == IF IsUpper(c) THEN LowerOf[c] ELSE c
upper_char(c) == IF IsLower(c) THEN UpperOf[c] ELSE c

lower(s) == [k \in 1..Len(s) |-> lower_char(s[k])]

----------------------------------------------------------------------------
(* str methods *)

Min(S) == CHOOSE x \in S : \A y \in S : x <= y
Max(S) == CHOOSE x \in S : \A y \in S : y <= x

\* s.lstrip() and s.rstrip(): white space is dropped from one end.
RECURSIVE lstrip(_)
lstrip(s) == IF s # <<>> /\ Head(s) \in Whitespace THEN lstrip(Tail(s)) ELSE s

RECURSIVE rstrip(_)
rstrip(s) ==
    IF s # <<>> /\ s[Len(s)] \in Whitespace THEN rstrip(SubSeq(s, 1, Len(s) - 1)) ELSE s

\* s.strip()
strip(s) == rstrip(lstrip(s))

startswith(s, c) == s # <<>> /\ Head(s) = c

\* s.replace(old, new, 1) for a one-character old: the first occurrence only.
replace_first(s, old, new) ==
    LET at == {k \in 1..Len(s) : s[k] = old}
    IN [k \in 1..Len(s) |-> IF at # {} /\ k = Min(at) THEN new ELSE s[k]]

\* s.replace('\n', ' '): every occurrence.
replace_all(s, old, new) == [k \in 1..Len(s) |-> IF s[k] = old THEN new ELSE s[k]]

\* Index of the first occurrence of sep in s at or after position from, 0 when none.
find(s, sep, from) ==
    LET at == {k \in from..(Len(s) - Len(sep) + 1) :
                  \A m \in 1..Len(sep) : s[k + m - 1] = sep[m]}
    IN IF at = {} THEN 0 ELSE Min(at)

\* s.split(sep) for a non-empty separator: the pieces between its occurrences.
RECURSIVE split_sep(_, _)
split_sep(s, sep) ==
    LET k == find(s, sep, 1) IN
    IF k = 0 THEN <<s>>
    ELSE <<SubSeq(s, 1, k - 1)>> \o split_sep(SubSeq(s, k + Len(sep), Len(s)), sep)

\* sep.join(parts)
RECURSIVE join(_, _)
join(sep, parts) ==
    IF parts = <<>> THEN <<>>
    ELSE IF Len(parts) = 1 THEN parts[1]
    ELSE parts[1] \o sep \o join(sep, Tail(parts))

\* s.split(): the maximal runs of characters that are not white space.  (Only
\* called on titles, which hold no word run.)
RECURSIVE split(_)
split(s) ==
    LET t == strip(s) IN
    IF t = <<>> THEN <<>>
    ELSE LET ws == {k \in 1..Len(t) : t[k] \in Whitespace}
             e == IF ws = {} THEN Len(t) + 1 ELSE Min(ws)
         IN <<SubSeq(t, 1, e - 1)>> \o split(SubSeq(t, e, Len(t)))

\* len(s.split()): the number of words, which is the number of places where a
\* word starts, and for every word run of n words the n - 1 more words it holds
\* (its first word is the one that starts there, or continues the word before it).
len_split(s) ==
    LET starts == {k \in 1..Len(s) : s[k] \notin Whitespace /\ (k = 1 \/ s[k - 1] \in Whitespace)}
        runs(tok) == Cardinality({k \in 1..Len(s) : s[k] = tok})
    IN Cardinality(starts) + runs(W1250) * (WordsIn(W1250) - 1)
                           + runs(W2500) * (WordsIn(W2500) - 1)

----------------------------------------------------------------------------
(* re.sub: the matches are taken from left to right and do not overlap *)

Backtick == "U+0060"
MarkdownChars == {"#", "*", "_", Backtick}

\* re.sub of the markdown character class (number sign, asterisk, underscore,
\* backtick) by the empty string.
re_sub_markdown(text) == SelectSeq(text, LAMBDA c : c \notin MarkdownChars)

\* The last position e >= k such that text[k+1..e] holds no line break: how far
\* a '.' can run from k.
line_end(text, k) ==
    LET breaks == {e \in (k + 1)..Len(text) : text[e] = "\n"}
    IN IF breaks = {} THEN Len(text) ELSE Min(breaks) - 1

\* Whether the literal lit matches text at position k, ignoring case.
match_literal(text, k, lit) ==
    /\ k + Len(lit) - 1 <= Len(text)
    /\ \A m \in 1..Len(lit) : lower_char(text[k + m - 1]) = lower_char(lit[m])

\* re.sub(lit, "", text, flags=re.IGNORECASE) for a literal pattern, from k on.
RECURSIVE re_sub_literal_from(_, _, _)
re_sub_literal_from(text, k, lit) ==
    LET at == {p \in k..Len(text) : match_literal(text, p, lit)} IN
    IF at = {} THEN SubSeq(text, k, Len(text))
    ELSE SubSeq(text, k, Min(at) - 1) \o re_sub_literal_from(text, Min(at) + Len(lit), lit)

re_sub_literal(text, lit) == re_sub_literal_from(text, 1, lit)

\* The end of the greedy \d+ starting at k (k - 1 when no digit is there).
digits_end(text, k) ==
    LET others == {e \in k..Len(text) : text[e] \notin Digits}
    IN IF others = {} THEN Len(text) ELSE Min(others) - 1

\* re.sub(lit + r"\d+", "", text, flags=re.IGNORECASE), from k on.
RECURSIVE re_sub_literal_digits_from(_, _, _)
re_sub_literal_digits_from(text, k, lit) ==
    LET at == {p \in k..Len(text) : /\ match_literal(text, p, lit)
                                     /\ digits_end(text, p + Len(lit)) >= p + Len(lit)} IN
    IF at = {} THEN SubSeq(text, k, Len(text))
    ELSE SubSeq(text, k, Min(at) - 1)
         \o re_sub_literal_digits_from(text, digits_end(text, Min(at) + Len(lit)) + 1, lit)

re_sub_literal_digits(text, lit) == re_sub_literal_digits_from(text, 1, lit)

\* The close characters that a span opened at p can end with: those of p's line.
span_ends(text, p, close) == {e \in (p + 1)..line_end(text, p) : text[e] = close}

\* re.sub(open + ".*" + close, "", text) when greedy and open + ".*?" + close when
\* not: from an open character to the last (greedy) or the first (lazy) close
\* character of the same line.
RECURSIVE re_sub_span_from(_, _, _, _, _)
re_sub_span_from(text, k, open, close, greedy) ==
    LET at == {p \in k..Len(text) : text[p] = open /\ span_ends(text, p, close) # {}} IN
    IF at = {} THEN SubSeq(text, k, Len(text))
    ELSE LET ends == span_ends(text, Min(at), close)
             e == IF greedy THEN Max(ends) ELSE Min(ends)
         IN SubSeq(text, k, Min(at) - 1) \o re_sub_span_from(text, e + 1, open, close, greedy)

re_sub_span(text, open, close, greedy) == re_sub_span_from(text, 1, open, close, greedy)

\* The end of the run of line breaks starting at k (k - 1 when none is there).
newlines_end(text, k) ==
    LET others == {e \in k..Len(text) : text[e] # "\n"}
    IN IF others = {} THEN Len(text) ELSE Min(others) - 1

\* re.sub(r"\n{3,}", "\n\n", text), from k on.
RECURSIVE re_sub_newlines_from(_, _)
re_sub_newlines_from(text, k) ==
    LET at == {p \in k..Len(text) : newlines_end(text, p) - p + 1 >= 3} IN
    IF at = {} THEN SubSeq(text, k, Len(text))
    ELSE SubSeq(text, k, Min(at) - 1) \o <<"\n", "\n">>
         \o re_sub_newlines_from(text, newlines_end(text, Min(at)) + 1)

re_sub_newlines(text) == re_sub_newlines_from(text, 1)

----------------------------------------------------------------------------
(* The text functions of the source *)

\* r"Aqui esta el capitulo \d+" (with its accents), less the \d+
PatternHereIsChapter ==
    <<"A", "q", "u", iAcute, " ", "e", "s", "t", aAcute, " ", "e", "l", " ", "c", "a",
           "p", iAcute, "t", "u", "l", "o", " ">>

\* r"Este capitulo trata sobre"
PatternThisChapterDeals ==
    <<"E", "s", "t", "e", " ", "c", "a", "p", iAcute, "t", "u", "l", "o", " ", "t", "r",
           "a", "t", "a", " ", "s", "o", "b", "r", "e">>

\* r"En este capitulo"
PatternInThisChapter ==
    <<"E", "n", " ", "e", "s", "t", "e", " ", "c", "a", "p", iAcute, "t", "u", "l", "o">>

\* r"El objetivo de este capitulo"
PatternTheGoal ==
    <<"E", "l", " ", "o", "b", "j", "e", "t", "i", "v", "o", " ", "d", "e", " ", "e",
           "s", "t", "e", " ", "c", "a", "p", iAcute, "t", "u", "l", "o">>

\* r"Vamos a explorar"
PatternLetsExplore ==
    <<"V", "a", "m", "o", "s", " ", "a", " ", "e", "x", "p", "l", "o", "r", "a", "r">>

\* The placeholder, "Error generating the chapter."
Placeholder ==
    <<"E", "r", "r", "o", "r", " ", "g", "e", "n", "e", "r", "a", "t", "i", "n", "g",
           " ", "t", "h", "e", " ", "c", "h", "a", "p", "t", "e", "r", ".">>

\* clean_markdown(text)
clean_markdown(text) == strip(re_sub_markdown(text))

\* The loop of process_lists: the processed lines of the lines left, given in_list.
RECURSIVE process_lines(_, _)
process_lines(lines, in_list) ==
    IF lines = <<>> THEN <<>>
    ELSE LET stripped_line == strip(Head(lines)) IN
         IF startswith(stripped_line, "-")
         THEN <<replace_first(stripped_line, "-", EmDash)>> \o process_lines(Tail(lines), TRUE)
         ELSE (IF in_list THEN << <<>> >> ELSE <<>>)
              \o <<stripped_line>> \o process_lines(Tail(lines), FALSE)

\* process_lists(text) of app.py; process_dialogues_and_lists(text) of old.py has
\* the same body.
process_lists(text) == join(<<"\n", "\n">>, process_lines(split_sep(text, <<"\n">>), FALSE))

process_dialogues_and_lists(text) == process_lists(text)

\* remove_unnecessary_comments(text): the six patterns in the order of the list,
\* then the parentheses, the line breaks and the strip.
remove_unnecessary_comments(text) ==
    LET t1 == re_sub_span(text, InvertedExclamation, "!", TRUE)
        t2 == re_sub_literal_digits(t1, PatternHereIsChapter)
        t3 == re_sub_literal(t2, PatternThisChapterDeals)
        t4 == re_sub_literal(t3, PatternInThisChapter)
        t5 == re_sub_literal(t4, PatternTheGoal)
        t6 == re_sub_literal(t5, PatternLetsExplore)
        t7 == re_sub_span(t6, "(", ")", FALSE)
        t8 == re_sub_newlines(t7)
    IN strip(t8)

\* What generate_chapter does to the content it holds after the try block.
normalize_app(content) == remove_unnecessary_comments(clean_markdown(content))

normalize_old(content) == clean_markdown(process_dialogues_and_lists(content))

\* The paragraphs create_word_document adds for one chapter.
strip_paragraph(para_text) == strip(replace_all(para_text, "\n", " "))

paragraphs_app(chapter) ==
    LET paragraphs == split_sep(process_lists(chapter), <<"\n", "\n">>)
    IN [k \in 1..Len(paragraphs) |-> strip_paragraph(paragraphs[k])]

paragraphs_old(chapter) ==
    LET paragraphs == split_sep(chapter, <<"\n", "\n">>)
    IN [k \in 1..Len(paragraphs) |-> strip_paragraph(paragraphs[k])]

----------------------------------------------------------------------------
(* format_title *)

\* word.capitalize(): the first character in upper case, the rest in lower case.
capitalize(word) ==
    [k \in 1..Len(word) |-> IF k = 1 THEN upper_char(word[k]) ELSE lower_char(word[k])]

\* title.title(): a cased character is put in upper case when the character before
\* it is not cased (or there is none), in lower case when it is.
title_case(s) ==
    [k \in 1..Len(s) |->
        IF k > 1 /\ IsCased(s[k - 1]) THEN lower_char(s[k]) ELSE upper_char(s[k])]

LangSpanish == <<"s", "p", "a", "n", "i", "s", "h">>

\* What a call returns: a value, or the exception it raises.
Returned(v) == [raised |-> "", value |-> v]
Raised(e) == [raised |-> e, value |-> <<>>]

\* format_title(title, language).  words[0] raises IndexError when the title holds
\* no word.
format_title_spanish(title) ==
    LET words == split(title) IN
    IF words = <<>> THEN Raised("IndexError")
    ELSE Returned(join(<<" ">>, <<capitalize(words[1])>>
                                 \o [k \in 1..(Len(words) - 1) |-> lower(words[k + 1])]))

\* format_title comparing the language as given, without language.lower().
format_title_as_given(title, language) ==
    IF language = LangSpanish
    THEN format_title_spanish(title)
    ELSE Returned(title_case(title))

format_title(title, language) ==
    IF lower(language) = LangSpanish
    THEN format_title_spanish(title)
    ELSE Returned(title_case(title))

----------------------------------------------------------------------------
(* The generation endpoint's answer, and generate_chapter *)

\* JSON values.
JObject(f) == [type |-> "object", fields |-> f]
JArray(items) == [type |-> "array", items |-> items]
JString(s) == [type |-> "string", value |-> s]
JNull == [type |-> "null"]
NoFields == [k \in {} |-> JNull]
Field(k, v) == [x \in {k} |-> v]

\* d.get(key, default): AttributeError when d is no dict.
dict_get(d, key, default) ==
    IF d.type # "object" THEN Raised("AttributeError")
    ELSE IF key \in DOMAIN d.fields THEN Returned(d.fields[key])
    ELSE Returned(default)

\* l[0]: IndexError on an empty list, KeyError on a dict, TypeError on null.
first_item(l) ==
    IF l.type = "array" /\ l.items # <<>> THEN Returned(l.items[1])
    ELSE IF l.type = "array" THEN Raised("IndexError")
    ELSE IF l.type = "object" THEN Raised("KeyError")
    ELSE Raised("TypeError")

\* The rest of a chain of calls, once one of them has raised.
Then(r, F(_)) == IF r.raised # "" THEN r ELSE F(r.value)

\* An HTTP exchange: the transport fails, or a status and a body come back.
TransportError == [transport |-> "error", status |-> 0, body |-> JNull]
HttpResponse(status, body) == [transport |-> "ok", status |-> status, body |-> body]
NotJson == [type |-> "invalid"]

\* The body of a well-formed answer carrying text.
BodyWithText(text) ==
    JObject(Field("candidates",
        JArray(<< JObject(Field("content",
            JObject(Field("parts", JArray(<< JObject(Field("text", text)) >>)))) ) >>)))

\* The try block of generate_chapter: requests.post, raise_for_status, and the
\* chain of .get and [0] down to the text.
fetch_content(response) ==
    IF response.transport # "ok" THEN Raised("ConnectionError")
    ELSE IF response.status \in 400..599 THEN Raised("HTTPError")
    ELSE IF response.body.type = "invalid" THEN Raised("JSONDecodeError")
    ELSE
      Then(dict_get(response.body, "candidates", JArray(<<JObject(NoFields)>>)), LAMBDA candidates :
      Then(first_item(candidates), LAMBDA candidate :
      Then(dict_get(candidate, "content", JObject(NoFields)), LAMBDA content :
      Then(dict_get(content, "parts", JArray(<<JObject(NoFields)>>)), LAMBDA parts :
      Then(first_item(parts), LAMBDA part :
      dict_get(part, "text", JString(Placeholder)))))))

\* The normalizer of the file deployed.
normalize(v, content) == IF v = "app" THEN normalize_app(content) ELSE normalize_old(content)

\* generate_chapter: the try block, the except branch (st.error and the
\* placeholder), then the normalizer, which is outside the try block: re.sub
\* raises TypeError on a content that is no string (in old.py text.split raises
\* AttributeError).  v is the file deployed.
\* Returns the cleaned content (or the exception raised) and what st.error showed.
generate_chapter(v, response, chapter_number) ==
    LET fetched == fetch_content(response)
        content == IF fetched.raised # "" THEN JString(Placeholder) ELSE fetched.value
        errors == IF fetched.raised # ""
                  THEN << [error |-> "Error generating chapter",
                           chapter_number |-> chapter_number,
                           exception |-> fetched.raised] >>
                  ELSE <<>>
    IN IF content.type # "string"
       THEN [raised |-> IF v = "app" THEN "TypeError" ELSE "AttributeError",
             value |-> <<>>, errors |-> errors]
       ELSE [raised |-> "", value |-> normalize(v, content.value), errors |-> errors]

\* The request: the template generate_chapter picks and what it fills in.  (The
\* optional table of contents and instructions are left empty.)
message_content(chapter_number, is_intro, is_conclusion) ==
    IF is_intro THEN [template |-> "introduction", chapter_number |-> 0]
    ELSE IF is_conclusion THEN [template |-> "conclusions", chapter_number |-> 0]
    ELSE [template |-> "chapter", chapter_number |-> chapter_number]

----------------------------------------------------------------------------
(* create_word_document *)

DigitChars == <<"0", "1", "2", "3", "4", "5", "6", "7", "8", "9">>

\* str(n) for n >= 0.
RECURSIVE str(_)
str(n) == IF n < 10 THEN <<DigitChars[n + 1]>> ELSE str(n \div 10) \o <<DigitChars[(n % 10) + 1]>>

ChapterWord == <<"C", "h", "a", "p", "t", "e", "r", " ">>
CapituloWord == <<"C", "a", "p", iAcute, "t", "u", "l", "o", " ">>

\* f"Chapter {i}" if language.lower() != "spanish" else f"Capitulo {i}" (with its accent)
chapter_title_text(k, language) ==
    IF lower(language) # LangSpanish THEN ChapterWord \o str(k) ELSE CapituloWord \o str(k)

NoDocument == [raised |-> "", built |-> FALSE, title |-> <<>>, headings |-> <<>>, bodies |-> <<>>]

\* create_word_document(chapters, title, author_name, author_bio, language) of the
\* file v, with no author name and no author profile: the title, then for every
\* element of chapters, numbered from 1, a heading and its paragraphs.  An
\* exception of format_title is not caught.
create_word_document(v, chaps, title, language) ==
    LET formatted_title == format_title(title, language)
        heading(k) == format_title(chapter_title_text(k, language), language)
        failed == {k \in 1..Len(chaps) : heading(k).raised # ""}
    IN IF formatted_title.raised # ""
       THEN [NoDocument EXCEPT !.raised = formatted_title.raised]
       ELSE IF failed # {}
       THEN [NoDocument EXCEPT !.raised = heading(Min(failed)).raised]
       ELSE [raised |-> "", built |-> TRUE,
             title |-> formatted_title.value,
             headings |-> [k \in 1..Len(chaps) |-> heading(k).value],
             bodies |-> [k \in 1..Len(chaps) |->
                            IF v = "app" THEN paragraphs_app(chaps[k])
                            ELSE paragraphs_old(chaps[k])]]

----------------------------------------------------------------------------
(* The pure functions, each applied to an input drawn from a bounded set *)

\* The longest text drawn, in fragments, and the longest title, in characters.
MaxFragments == 4
MaxTitleLen == 4

\* The pieces the texts are made of: plain characters, the characters the
\* normalizer acts on, and the two halves of one of its phrases.
TextFragments ==
    { <<"a">>, <<" ">>, <<"\n">>, <<"#">>, <<"-">>, <<"(">>, <<")">>, <<"(", "b", ")">>,
      <<InvertedExclamation>>, <<"!">>,
      <<"V", "a", "m", "o", "s", " ", "a", " ">>,
      <<"e", "x", "p", "l", "o", "r", "a", "r">> }

RECURSIVE TextsOf(_)
TextsOf(n) ==
    IF n = 0 THEN { <<>> }
    ELSE LET shorter == TextsOf(n - 1)
         IN shorter \cup {t \o f : t \in shorter, f \in TextFragments}

Texts == TextsOf(MaxFragments)

TitleChars == {"a", "B", " ", "'"}

RECURSIVE TitlesOf(_)
TitlesOf(n) ==
    IF n = 0 THEN { <<>> }
    ELSE LET shorter == TitlesOf(n - 1)
         IN shorter \cup {t \o <<c>> : t \in shorter, c \in TitleChars}

TheGreatWar == <<"t", "h", "e", " ", "g", "r", "e", "a", "t", " ", "w", "a", "r">>

Titles == TitlesOf(MaxTitleLen) \cup {TheGreatWar}

\* The list the language selectbox offers.
languages ==
    << <<"E", "n", "g", "l", "i", "s", "h">>,
       <<"S", "p", "a", "n", "i", "s", "h">>,
       <<"F", "r", "e", "n", "c", "h">>,
       <<"G", "e", "r", "m", "a", "n">>,
       <<"C", "h", "i", "n", "e", "s", "e">>,
       <<"J", "a", "p", "a", "n", "e", "s", "e">>,
       <<"R", "u", "s", "s", "i", "a", "n">>,
       <<"P", "o", "r", "t", "u", "g", "u", "e", "s", "e">>,
       <<"I", "t", "a", "l", "i", "a", "n">>,
       <<"A", "r", "a", "b", "i", "c">>,
       <<"M", "e", "d", "i", "e", "v", "a", "l", " ", "L", "a", "t", "i", "n">>,
       <<"K", "o", "i", "n", "e", " ", "G", "r", "e", "e", "k">> >>

\* The languages format_title is given: as offered, in lower case (as the
\* download block passes them) and in upper case.
TitleLanguages ==
    {languages[k] : k \in 1..2} \cup {lower(languages[k]) : k \in 1..Len(languages)}
    \cup { [k \in 1..Len(LangSpanish) |-> upper_char(LangSpanish[k])] }

\* The script is not running: the values its variables keep meanwhile.
UiIdle ==
    /\ variant = "app"
    /\ topic = <<>>
    /\ audience = <<>>
    /\ num_chapters = 1
    /\ include_intro = TRUE
    /\ include_conclusion = TRUE
    /\ selected_language = languages[1]
    /\ session_chapters = <<>>
    /\ pc = "idle"
    /\ chapters = <<>>
    /\ i = 0
    /\ chapter_content = <<>>
    /\ word_count = 0
    /\ st_errors = <<>>
    /\ requests = <<>>
    /\ doc = NoDocument
    /\ run_end = "none"
    /\ run_count = 0
    /\ stored_run = 0

TextInit ==
    /\ UiIdle
    /\ arg \in Texts
    /\ applied = "none"
    /\ res = <<>>

\* The normalizer of app.py, as generate_chapter applies it to the content.
NormalizeApp ==
    /\ applied = "none"
    /\ applied' = "normalize_app"
    /\ res' = <<normalize_app(arg)>>
    /\ UNCHANGED <<arg, uiVars>>

\* The same normalizer applied to its own output.
NormalizeAppAgain ==
    /\ applied = "normalize_app"
    /\ applied' = "normalize_app_again"
    /\ res' = <<res[1], normalize_app(res[1])>>
    /\ UNCHANGED <<arg, uiVars>>

\* The normalizer of old.py.
NormalizeOld ==
    /\ applied = "none"
    /\ applied' = "normalize_old"
    /\ res' = <<normalize_old(arg)>>
    /\ UNCHANGED <<arg, uiVars>>

NormalizeOldAgain ==
    /\ applied = "normalize_old"
    /\ applied' = "normalize_old_again"
    /\ res' = <<res[1], normalize_old(res[1])>>
    /\ UNCHANGED <<arg, uiVars>>

\* remove_unnecessary_comments on the text as drawn.
RemoveComments ==
    /\ applied = "none"
    /\ applied' = "remove_unnecessary_comments"
    /\ res' = <<remove_unnecessary_comments(arg)>>
    /\ UNCHANGED <<arg, uiVars>>

\* The paragraphs create_word_document makes of a chapter that generate_chapter
\* returned, in app.py and in old.py.
DocumentApp ==
    /\ applied = "normalize_app"
    /\ applied' = "paragraphs_app"
    /\ res' = <<res[1], paragraphs_app(res[1])>>
    /\ UNCHANGED <<arg, uiVars>>

DocumentOld ==
    /\ applied = "normalize_old"
    /\ applied' = "paragraphs_old"
    /\ res' = <<res[1], paragraphs_old(res[1])>>
    /\ UNCHANGED <<arg, uiVars>>

TextNext ==
    \/ NormalizeApp
    \/ NormalizeAppAgain
    \/ NormalizeOld
    \/ NormalizeOldAgain
    \/ RemoveComments
    \/ DocumentApp
    \/ DocumentOld

TextSpec == TextInit /\ [][TextNext]_vars

TitleInit ==
    /\ UiIdle
    /\ arg \in [title : Titles, language : TitleLanguages]
    /\ applied = "none"
    /\ res = Returned(<<>>)

FormatTitle ==
    /\ applied = "none"
    /\ applied' = "format_title"
    /\ res' = format_title(arg.title, arg.language)
    /\ UNCHANGED <<arg, uiVars>>

TitleNext == FormatTitle

TitleSpec == TitleInit /\ [][TitleNext]_vars

\* Every shape of answer generate_chapter is given here.  The failures:
\* no answer, a status that is not 2xx, a body that is no JSON, and the bodies
\* that lack the candidates, hold an empty list of them, or lack the content,
\* the parts (or hold none) or the text, or hold a text that is no string.
FailureResponses ==
    { TransportError,
      HttpResponse(500, JNull),
      HttpResponse(404, NotJson),
      HttpResponse(200, NotJson),
      HttpResponse(200, JObject(NoFields)),
      HttpResponse(200, JObject(Field("candidates", JArray(<<>>)))),
      HttpResponse(200, JObject(Field("candidates", JArray(<<JObject(NoFields)>>)))),
      HttpResponse(200, JObject(Field("candidates",
          JArray(<<JObject(Field("content", JObject(NoFields)))>>)))),
      HttpResponse(200, JObject(Field("candidates",
          JArray(<<JObject(Field("content", JObject(Field("parts", JArray(<<>>)))))>>)))),
      HttpResponse(200, JObject(Field("candidates",
          JArray(<<JObject(Field("content",
              JObject(Field("parts", JArray(<<JObject(NoFields)>>)))))>>)))),
      HttpResponse(200, BodyWithText(JNull)) }

AnswerTexts == TextsOf(1) \cup { <<W1250>>, <<"*", "*", W2500, "*", "*">>, Placeholder }

SuccessResponses == {HttpResponse(200, BodyWithText(JString(t))) : t \in AnswerTexts}

Responses == FailureResponses \cup SuccessResponses

FetchInit ==
    /\ UiIdle
    /\ arg \in [v : {"app", "old"}, response : Responses, chapter_number : 0..2]
    /\ applied = "none"
    /\ res = <<>>

\* One invocation of generate_chapter: its request, what st.error shows, and what
\* it returns.
GenerateChapter ==
    /\ applied = "none"
    /\ applied' = "generate_chapter"
    /\ LET returned == generate_chapter(arg.v, arg.response, arg.chapter_number) IN
         /\ res' = returned
         /\ st_errors' = st_errors \o returned.errors
         /\ requests' = Append(requests,
                [message |-> message_content(arg.chapter_number, FALSE, FALSE),
                 section |-> 1, response |-> arg.response,
                 raised |-> returned.raised, value |-> returned.value])
    /\ UNCHANGED <<arg, variant, topic, audience, num_chapters, include_intro,
                   include_conclusion, selected_language, session_chapters, pc, chapters,
                   i, chapter_content, word_count, doc, run_end, run_count, stored_run>>

FetchNext == GenerateChapter

FetchSpec == FetchInit /\ [][FetchNext]_vars

----------------------------------------------------------------------------
(* The Streamlit script: one press of Generate Book in a fresh session *)

\* The most chapters the slider is set to here (it goes to 20 in app.py and to 50
\* in old.py), and the most additional fetches followed for one chapter.
MaxChapters == 2
MaxExtra == 1

\* while word_count < 2500
MinWords == 2500

TheWar == <<"t", "h", "e", " ", "w", "a", "r">>
Readers == <<"r", "e", "a", "d", "e", "r", "s">>

Topics == { <<>>, TheWar }
Audiences == { <<>>, Readers }
LanguageChoices == { languages[1], languages[2] }

\* What the endpoint answers in a run: no answer at all, a parenthesis and
\* nothing else, a text of 2500 words in bold marks, and an answer whose text is
\* null.
RunResponses ==
    { TransportError,
      HttpResponse(200, BodyWithText(JString(<<"(", "b", ")">>))),
      HttpResponse(200, BodyWithText(JString(<<"*", "*", W2500, "*", "*">>))),
      HttpResponse(200, BodyWithText(JNull)) }

\* generate_chapter on every answer of a run, computed once.
Generated ==
    [v \in {"app", "old"} |-> [response \in RunResponses |-> [n \in 0..(MaxChapters + 1) |->
        generate_chapter(v, response, n)]]]

FnIdle ==
    /\ arg = <<>>
    /\ applied = "none"
    /\ res = <<>>

Init ==
    /\ variant \in {"app", "old"}
    /\ topic \in Topics
    /\ audience \in Audiences
    /\ num_chapters \in 1..MaxChapters
    /\ include_intro \in BOOLEAN
    /\ include_conclusion \in BOOLEAN
    /\ selected_language \in LanguageChoices
    /\ session_chapters = <<>>
    /\ pc = "idle"
    /\ chapters = <<>>
    /\ i = 0
    /\ chapter_content = <<>>
    /\ word_count = 0
    /\ st_errors = <<>>
    /\ requests = <<>>
    /\ doc = NoDocument
    /\ run_end = "none"
    /\ run_count = 0
    /\ stored_run = 0
    /\ FnIdle

widgets == <<variant, topic, audience, num_chapters, include_intro, include_conclusion,
             selected_language>>

\* The button handler with the error shown and no st.stop() after it.
ButtonPressed_no_stop ==
    /\ pc = "idle"
    /\ st_errors' = IF topic = <<>> \/ audience = <<>>
                    THEN << [error |-> "Please enter a valid topic and target audience.",
                             chapter_number |-> 0, exception |-> ""] >>
                    ELSE <<>>
    /\ run_end' = "running"
    /\ run_count' = run_count + 1
    /\ chapters' = <<>>
    /\ requests' = <<>>
    /\ IF include_intro THEN pc' = "intro" /\ i' = i
                        ELSE pc' = "chapter" /\ i' = 1
    /\ doc' = NoDocument
    /\ UNCHANGED <<widgets, session_chapters, chapter_content, word_count, stored_run,
                   fnVars>>

\* The button handler up to the first fetch: the validation, which shows the error
\* and stops the script (the download block is not reached), or chapters = [] and
\* the run goes on.  Nothing is assigned to st.session_state here.
ButtonPressed ==
    /\ pc = "idle"
    /\ IF topic = <<>> \/ audience = <<>>
       THEN /\ st_errors' = << [error |-> "Please enter a valid topic and target audience.",
                                chapter_number |-> 0, exception |-> ""] >>
            /\ run_end' = "stopped"
            /\ UNCHANGED <<pc, chapters, i, requests, run_count>>
       ELSE /\ st_errors' = <<>>
            /\ run_end' = "running"
            /\ run_count' = run_count + 1
            /\ chapters' = <<>>
            /\ requests' = <<>>
            /\ IF include_intro THEN pc' = "intro" /\ i' = i
                                ELSE pc' = "chapter" /\ i' = 1
    /\ doc' = NoDocument
    /\ UNCHANGED <<widgets, session_chapters, chapter_content, word_count, stored_run,
                   fnVars>>

\* The button is pressed in a fresh session.
PressGenerate ==
    /\ run_end = "none"
    /\ ButtonPressed

\* One call of generate_chapter by the handler, as the log keeps it.
Request(message, response, returned) ==
    [message |-> message, section |-> Len(chapters) + 1, response |-> response,
     raised |-> returned.raised, value |-> returned.value]

\* An exception leaves the handler: the script run ends there.
Abort(returned) ==
    /\ pc' = "idle"
    /\ run_end' = "raised"
    /\ st_errors' = st_errors \o returned.errors
    /\ UNCHANGED <<widgets, session_chapters, chapters, i, chapter_content, word_count,
                   doc, run_count, stored_run, fnVars>>

\* if include_intro: the introduction is fetched and appended (old.py counts its
\* words for the expander); the chapter loop starts.
IntroFetched(response) ==
    /\ pc = "intro"
    /\   LET returned == Generated[variant][response][0] IN
         /\ requests' = Append(requests, Request(message_content(0, TRUE, FALSE), response, returned))
         /\ IF returned.raised # "" THEN Abort(returned)
            ELSE /\ chapters' = Append(chapters, returned.value)
                 /\ st_errors' = st_errors \o returned.errors
                 /\ word_count' = IF variant = "old" THEN len_split(returned.value)
                                  ELSE word_count
                 /\ pc' = "chapter"
                 /\ i' = 1
                 /\ UNCHANGED <<widgets, session_chapters, chapter_content, doc, run_end,
                                run_count, stored_run, fnVars>>

\* The loop body with range(1, num_chapters) for the chapter loop.
AfterFetch_short_range(content) ==
    LET count == len_split(content) IN
    /\ chapter_content' = content
    /\ word_count' = count
    /\ IF variant = "app" /\ count < MinWords
       THEN /\ pc' = "additional"
            /\ UNCHANGED <<chapters, i>>
       ELSE /\ chapters' = Append(chapters, content)
            /\ IF i + 1 < num_chapters
               THEN pc' = "chapter" /\ i' = i + 1
               ELSE /\ pc' = IF include_conclusion THEN "conclusion" ELSE "store"
                    /\ i' = i

\* The loop body with while word_count <= 2500.
AfterFetch_while_le(content) ==
    LET count == len_split(content) IN
    /\ chapter_content' = content
    /\ word_count' = count
    /\ IF variant = "app" /\ count <= MinWords
       THEN /\ pc' = "additional"
            /\ UNCHANGED <<chapters, i>>
       ELSE /\ chapters' = Append(chapters, content)
            /\ IF i < num_chapters
               THEN pc' = "chapter" /\ i' = i + 1
               ELSE /\ pc' = IF include_conclusion THEN "conclusion" ELSE "store"
                    /\ i' = i

\* The chapter loop's body after its fetches: in app.py the while loop goes on
\* below 2500 words; otherwise the chapter is appended and the loop goes to the
\* next chapter, or ends.
AfterFetch(content) ==
    LET count == len_split(content) IN
    /\ chapter_content' = content
    /\ word_count' = count
    /\ IF variant = "app" /\ count < MinWords
       THEN /\ pc' = "additional"
            /\ UNCHANGED <<chapters, i>>
       ELSE /\ chapters' = Append(chapters, content)
            /\ IF i < num_chapters
               THEN pc' = "chapter" /\ i' = i + 1
               ELSE /\ pc' = IF include_conclusion THEN "conclusion" ELSE "store"
                    /\ i' = i

\* The first fetch of chapter i.
ChapterFetched(response) ==
    /\ pc = "chapter"
    /\   LET returned == Generated[variant][response][i] IN
         /\ requests' = Append(requests, Request(message_content(i, FALSE, FALSE), response, returned))
         /\ IF returned.raised # "" THEN Abort(returned)
            ELSE /\ AfterFetch(returned.value)
                 /\ st_errors' = st_errors \o returned.errors
                 /\ UNCHANGED <<widgets, session_chapters, doc, run_end, run_count, stored_run,
                                fnVars>>

\* The additional fetches the log holds for the chapter being accumulated.
ExtraFetches == Cardinality({k \in 1..Len(requests) : requests[k].section = Len(chapters) + 1}) - 1

\* The body of the while loop: one more fetch for chapter i, appended after a
\* blank line.
FetchAdditional ==
    /\ pc = "additional"
    /\ ExtraFetches < MaxExtra
    /\ \E response \in RunResponses :
         LET returned == Generated[variant][response][i] IN
         /\ requests' = Append(requests, Request(message_content(i, FALSE, FALSE), response, returned))
         /\ IF returned.raised # "" THEN Abort(returned)
            ELSE /\ AfterFetch(chapter_content \o <<"\n", "\n">> \o returned.value)
                 /\ st_errors' = st_errors \o returned.errors
                 /\ UNCHANGED <<widgets, session_chapters, doc, run_end, run_count, stored_run,
                                fnVars>>

\* if include_conclusion: the conclusions are fetched and appended.
ConclusionFetched(response) ==
    /\ pc = "conclusion"
    /\   LET returned == Generated[variant][response][0] IN
         /\ requests' = Append(requests, Request(message_content(0, FALSE, TRUE), response, returned))
         /\ IF returned.raised # "" THEN Abort(returned)
            ELSE /\ chapters' = Append(chapters, returned.value)
                 /\ st_errors' = st_errors \o returned.errors
                 /\ word_count' = IF variant = "old" THEN len_split(returned.value)
                                  ELSE word_count
                 /\ pc' = "store"
                 /\ UNCHANGED <<widgets, session_chapters, i, chapter_content, doc, run_end,
                                run_count, stored_run, fnVars>>

\* The fetches of a run in a fresh session, with every answer of RunResponses.
FetchIntro == \E response \in RunResponses : IntroFetched(response)

FetchChapter == \E response \in RunResponses : ChapterFetched(response)

FetchConclusion == \E response \in RunResponses : ConclusionFetched(response)

\* st.session_state.chapters = chapters, and the download block that follows it
\* in the same script run.
Store ==
    /\ pc = "store"
    /\ session_chapters' = chapters
    /\ doc' = IF chapters # <<>>
              THEN create_word_document(variant, chapters, topic, lower(selected_language))
              ELSE NoDocument
    /\ run_end' = "stored"
    /\ stored_run' = run_count
    /\ pc' = "idle"
    /\ UNCHANGED <<widgets, chapters, i, chapter_content, word_count, st_errors, requests,
                   run_count, fnVars>>

Next ==
    \/ PressGenerate
    \/ FetchIntro
    \/ FetchChapter
    \/ FetchAdditional
    \/ FetchConclusion
    \/ Store

Spec == Init /\ [][Next]_vars

----------------------------------------------------------------------------
(* One session: runs of the handler one after the other, and the reruns of the *)
(* script that an edited widget causes                                         *)

\* The most runs that get past the validation in one session.
MaxRuns == 2

\* A topic of white space only: it is not empty for the validation.
BlankTopic == <<" ">>

SessionTopics == Topics \cup {BlankTopic}

\* What the endpoint answers in a session: a text of 2500 words, and an answer
\* whose text is null.
SessionResponses ==
    { HttpResponse(200, BodyWithText(JString(<<"*", "*", W2500, "*", "*">>))),
      HttpResponse(200, BodyWithText(JNull)) }

SessionInit ==
    /\ Init
    /\ num_chapters = 1

\* The button is pressed, in a fresh session or after other runs.
PressAgain ==
    /\ run_count < MaxRuns
    /\ ButtonPressed

\* The download block, which every script run reaches that the handler has not
\* stopped or left by an exception: if st.session_state.chapters, the document is
\* built from the stored sections and the widgets as they are now.
DownloadBlock(title, language) ==
    doc' = IF session_chapters # <<>>
           THEN create_word_document(variant, session_chapters, title, lower(language))
           ELSE NoDocument

\* A widget is edited while no script runs: the script is run again with the button
\* not pressed, so the handler is skipped and the download block is reached.
Rerun(title, readers, language) ==
    /\ pc = "idle"
    /\ topic' = title
    /\ audience' = readers
    /\ selected_language' = language
    /\ st_errors' = <<>>
    /\ DownloadBlock(title, language)
    /\ run_end' = "rerun"
    /\ UNCHANGED <<variant, num_chapters, include_intro, include_conclusion,
                   session_chapters, chapters, i, chapter_content, word_count, requests,
                   pc, run_count, stored_run, fnVars>>

EditTopic ==
    \E title \in SessionTopics \ {topic} : Rerun(title, audience, selected_language)

EditAudience ==
    \E readers \in Audiences \ {audience} : Rerun(topic, readers, selected_language)

EditLanguage ==
    \E language \in LanguageChoices \ {selected_language} : Rerun(topic, audience, language)

SessionFetchIntro == \E response \in SessionResponses : IntroFetched(response)

SessionFetchChapter == \E response \in SessionResponses : ChapterFetched(response)

SessionFetchConclusion == \E response \in SessionResponses : ConclusionFetched(response)

SessionNext ==
    \/ PressAgain
    \/ EditTopic
    \/ EditAudience
    \/ EditLanguage
    \/ SessionFetchIntro
    \/ SessionFetchChapter
    \/ SessionFetchConclusion
    \/ Store

SessionSpec == SessionInit /\ [][SessionNext]_vars

----------------------------------------------------------------------------
(* The order and the length of the sections, and the fetches of a chapter *)

\* The requests the log holds for section s, in the order they were made.
RequestsOf(s) == SelectSeq(requests, LAMBDA r : r.section = s)

\* What the requests of a section returned, joined by blank lines.
JoinValues(fetched) == join(<<"\n", "\n">>, [k \in 1..Len(fetched) |-> fetched[k].value])

\* The sections the widgets ask for, by the request that is made for each.
ExpectedSections ==
    (IF include_intro THEN << [template |-> "introduction", chapter_number |-> 0] >> ELSE <<>>)
    \o [k \in 1..num_chapters |-> [template |-> "chapter", chapter_number |-> k]]
    \o (IF include_conclusion THEN << [template |-> "conclusions", chapter_number |-> 0] >>
        ELSE <<>>)

\* C1: when a run reaches the store, the stored list is the introduction if and
\* only if it is enabled, then the chapters 1 to num_chapters in ascending order,
\* then the conclusions if and only if they are enabled.  Its length is
\* num_chapters plus one for each toggle that is on, every section holds what was
\* fetched for it and nothing else, and the fetches were made in that order.
C1_SectionOrder ==
    run_end = "stored" =>
        /\ Len(session_chapters) = Len(ExpectedSections)
        /\ Len(session_chapters) = num_chapters + (IF include_intro THEN 1 ELSE 0)
                                                + (IF include_conclusion THEN 1 ELSE 0)
        /\ \A s \in 1..Len(session_chapters) :
             LET fetched == RequestsOf(s) IN
             /\ fetched # <<>>
             /\ \A k \in 1..Len(fetched) : fetched[k].message = ExpectedSections[s]
             /\ session_chapters[s] = JoinValues(fetched)
        /\ \A k \in 1..Len(requests) : requests[k].section \in 1..Len(session_chapters)
        /\ \A k \in 1..(Len(requests) - 1) : requests[k].section <= requests[k + 1].section

\* A run with both toggles on and two chapters has stored its four sections.
C1_Witness ==
    /\ run_end = "stored"
    /\ include_intro /\ include_conclusion /\ num_chapters = 2
    /\ Len(session_chapters) = 4
    /\ RequestsOf(1)[1].message.template = "introduction"
    /\ RequestsOf(4)[1].message.template = "conclusions"

\* C2: in app.py every numbered chapter appended to the list has at least 2500
\* words and is what its fetches returned, joined by blank lines; an additional
\* fetch for a chapter is made only when what was accumulated before it has fewer
\* than 2500 words, so no fetch is made once the count has reached 2500.
C2_WordFloor ==
    variant = "app" =>
        \A s \in 1..(Len(chapters) + 1) :
            LET fetched == RequestsOf(s) IN
            (fetched # <<>> /\ fetched[1].message.template = "chapter") =>
                /\ s <= Len(chapters) =>
                      /\ len_split(chapters[s]) >= MinWords
                      /\ chapters[s] = JoinValues(fetched)
                /\ \A k \in 2..Len(fetched) :
                      len_split(JoinValues(SubSeq(fetched, 1, k - 1))) < MinWords
                /\ (s = Len(chapters) + 1 /\ pc = "additional") =>
                      /\ chapter_content = JoinValues(fetched)
                      /\ word_count = len_split(chapter_content)
                      /\ word_count < MinWords

\* A run of app.py has stored a chapter that took an additional fetch to reach
\* 2500 words.
C2_Witness ==
    /\ variant = "app"
    /\ run_end = "stored"
    /\ \E s \in 1..Len(session_chapters) :
          /\ RequestsOf(s)[1].message.template = "chapter"
          /\ Len(RequestsOf(s)) = 2
          /\ len_split(RequestsOf(s)[1].value) < MinWords
          /\ len_split(session_chapters[s]) >= MinWords

\* C3: the while loop ends after a bounded number of additional fetches whatever
\* the fetches return.  The results of the fetches do not depend on one another,
\* so this is the loop's variant: an additional fetch that leaves the loop
\* running has raised the word count.
C3_LoopProgress ==
    [][(pc = "additional" /\ pc' = "additional") => word_count' > word_count]_vars

\* The answer is well formed: status 2xx and a body that carries a text string.
CarriesText(response) ==
    /\ response.transport = "ok"
    /\ response.status \in 200..299
    /\ LET fetched == fetch_content(response) IN
          /\ fetched.raised = ""
          /\ fetched.value.type = "string"
          /\ response.body = BodyWithText(fetched.value)

\* The text of a well-formed answer.
TextIn(response) == fetch_content(response).value.value

\* C4: a fetch that fails never aborts the run.  The run goes on to the store, and
\* in the stored list every failed fetch has left the placeholder and every other
\* fetch its own generated content, each in the section it was made for.
C4_FailureIsolation ==
    /\ run_end # "raised"
    /\ run_end = "stored" =>
          \A s \in 1..Len(session_chapters) :
              LET fetched == RequestsOf(s) IN
              /\ \A k \in 1..Len(fetched) :
                    fetched[k].value =
                        IF CarriesText(fetched[k].response)
                        THEN normalize(variant, TextIn(fetched[k].response))
                        ELSE Placeholder
              /\ session_chapters[s] = JoinValues(fetched)

\* C5: for every failure of the request, generate_chapter returns the placeholder
\* and reports the error for that chapter, having made one request.
C5_FailureReported ==
    (applied = "generate_chapter" /\ arg.response \in FailureResponses) =>
        /\ res.raised = ""
        /\ res.value = Placeholder
        /\ Len(st_errors) = 1
        /\ st_errors[1].chapter_number = arg.chapter_number
        /\ Len(requests) = 1

\* C6: the normalizer applied to its own output leaves it as it is, in app.py and
\* in old.py.
C6_NormalizerIdempotent ==
    applied \in {"normalize_app_again", "normalize_old_again"} => res[2] = res[1]

\* The parentheses of the text, in order.
Parentheses(text) == SelectSeq(text, LAMBDA c : c \in {"(", ")"})

\* The parentheses of the text are pairs, one after the other and none within
\* another.
SinglePairs(text) ==
    LET p == Parentheses(text) IN
    /\ Len(p) % 2 = 0
    /\ \A k \in 1..Len(p) : p[k] = IF k % 2 = 1 THEN "(" ELSE ")"

\* The positions of the text between an opening parenthesis and the one that
\* closes it.
Enclosed(text) ==
    {k \in 1..Len(text) :
        /\ text[k] \notin {"(", ")"}
        /\ Cardinality({j \in 1..(k - 1) : text[j] = "("})
             > Cardinality({j \in 1..(k - 1) : text[j] = ")"})}

\* C7: remove_unnecessary_comments removes every single pair of parentheses
\* together with what it encloses, a line break included: no parenthesis is left,
\* and no character that the text holds between parentheses only.
C7_ParenthesesRemoved ==
    (applied = "remove_unnecessary_comments" /\ SinglePairs(arg)) =>
        /\ Parentheses(res[1]) = <<>>
        /\ \A k \in Enclosed(arg) :
              (\A j \in 1..Len(arg) : arg[j] = arg[k] => j \in Enclosed(arg))
                  => \A j \in 1..Len(res[1]) : res[1][j] # arg[k]

\* A line that process_lists takes for a list item.
IsListLine(line) == startswith(strip(line), "-")

\* Where the k-th line is among the document's paragraphs when an empty one is
\* inserted after every run of list lines.
ParagraphOf(lines, k) ==
    k + Cardinality({j \in 1..(k - 1) : IsListLine(lines[j]) /\ ~IsListLine(lines[j + 1])})

\* C8: no paragraph of the document begins with a hyphen, in app.py and in old.py.
\* In the document app.py makes of a chapter, every line whose trimmed form begins
\* with a hyphen has had that hyphen replaced by an em dash, and an empty
\* paragraph follows a run of list lines that a line of another kind ends.  (In
\* old.py the Markdown characters are removed from the lines after that, so the
\* lines are compared in app.py only.)
C8_NoHyphenParagraph ==
    applied \in {"paragraphs_app", "paragraphs_old"} =>
        /\ \A k \in 1..Len(res[2]) : ~startswith(res[2][k], "-")
        /\ applied = "paragraphs_app" =>
              LET lines == split_sep(res[1], <<"\n">>) IN
              /\ \A k \in 1..Len(lines) :
                    IsListLine(lines[k]) =>
                        res[2][ParagraphOf(lines, k)] = <<EmDash>> \o Tail(strip(lines[k]))
              /\ \A k \in 1..(Len(lines) - 1) :
                    (IsListLine(lines[k]) /\ ~IsListLine(lines[k + 1])) =>
                        res[2][ParagraphOf(lines, k) + 1] = <<>>

TheGreatWarSentence == <<"T", "h", "e", " ", "g", "r", "e", "a", "t", " ", "w", "a", "r">>
TheGreatWarTitle == <<"T", "h", "e", " ", "G", "r", "e", "a", "t", " ", "W", "a", "r">>

C10_HeadingNumbers ==
    (run_end = "stored" /\ doc.built) =>
        \A s \in 1..Len(doc.headings) :
            LET message == RequestsOf(s)[1].message
                numbered(n) == (IF lower(selected_language) = LangSpanish
                                THEN CapituloWord ELSE ChapterWord) \o str(n)
            IN IF message.template = "chapter"
               THEN doc.headings[s] = numbered(message.chapter_number)
               ELSE \A n \in 1..Len(doc.headings) : doc.headings[s] # numbered(n)

----------------------------------------------------------------------------
(* The session over several runs *)

\* C11: when the button is pressed with an empty topic or an empty audience, the
\* run halts at the validation: the script is idle again, no fetch has been made
\* for any section, no run has started, and the sections stored in the session
\* are those that were stored before the press.
C11_MissingInputHalts ==
    [][(pc = "idle" /\ run_end' \in {"stopped", "running"}
            /\ (topic = <<>> \/ audience = <<>>))
        => /\ run_end' = "stopped"
           /\ pc' = "idle"
           /\ requests' = requests
           /\ run_count' = run_count
           /\ session_chapters' = session_chapters
           /\ stored_run' = stored_run]_vars

\* The button has been pressed with the topic cleared after a run that stored its
\* sections: the validation has stopped the script and the sections are there.
C11_Witness ==
    /\ run_end = "stopped"
    /\ topic = <<>>
    /\ st_errors # <<>>
    /\ stored_run = 1
    /\ session_chapters # <<>>

\* C12: whenever the session holds generated sections and a script run has reached
\* the download block, create_word_document with the topic and the language as
\* they are now has returned a document and has not raised.
C12_BuilderNeverRaises ==
    (pc = "idle" /\ session_chapters # <<>> /\ run_end \in {"stored", "rerun"}) =>
        /\ doc.raised = ""
        /\ doc.built

\* C13: between the script runs of a session, the sections the session holds (and
\* the download block offers) are those of the run that started last: the session
\* holds no sections of an older run.
C13_FreshRunDiscards ==
    (pc = "idle" /\ session_chapters # <<>>) =>
        /\ stored_run = run_count
        /\ session_chapters = chapters

====
